---- MODULE Spec2Model ----
\* Model of src/video-processor/transcoder.py: one run of
\* VideoTranscoder.transcode_video, one action per external process
\* invocation and per loop exit.
EXTENDS Integers, Sequences, FiniteSets, TLC

\* ---------------------------------------------------------------- bounds
\* Longest explicit list of requested resolutions.
MaxLen == 3

\* Most thumbnail extractions that fail (non-zero exit) in one run.
MaxThumbFailures == 1

\* Largest count of a direct _generate_thumbnails call for which every
\* combination of extraction outcomes is explored.
MaxCount == 4

\* Failing thumbnail extractions explored for a call with the given count:
\* all of them up to MaxCount, MaxThumbFailures above it.
FailureCap(cnt) == IF cnt <= MaxCount THEN cnt ELSE MaxThumbFailures

\* Most paths the walk of the local output directory yields.
MaxEntries == 4

\* Labels a caller puts in an explicit request: catalog labels and one label
\* the catalog does not know.
RequestLabels == {"1080p", "720p", "480p", "bogus"}

\* Durations (seconds) a successful probe reports; 0 is what
\* data['format'].get('duration', 0) gives when the prober reports none.
Durations == {0, 7, 30}

\* ------------------------------------------------------ program constants
\* transcode_video calls _generate_thumbnails(count=10).
ThumbCount == 10

\* self.quality_presets, in declaration order.
CatalogOrder == <<"2160p", "1080p", "720p", "480p", "360p">>

quality_presets ==
  [ r \in {CatalogOrder[n] : n \in 1..Len(CatalogOrder)} |->
      CASE r = "2160p" -> [width |-> 3840, height |-> 2160,
                           bitrate |-> <<"1","5","0","0","0","k">>,
                           audio_bitrate |-> <<"1","9","2","k">>]
        [] r = "1080p" -> [width |-> 1920, height |-> 1080,
                           bitrate |-> <<"5","0","0","0","k">>,
                           audio_bitrate |-> <<"1","2","8","k">>]
        [] r = "720p"  -> [width |-> 1280, height |-> 720,
                           bitrate |-> <<"2","5","0","0","k">>,
                           audio_bitrate |-> <<"1","2","8","k">>]
        [] r = "480p"  -> [width |-> 854, height |-> 480,
                           bitrate |-> <<"1","0","0","0","k">>,
                           audio_bitrate |-> <<"9","6","k">>]
        [] r = "360p"  -> [width |-> 640, height |-> 360,
                           bitrate |-> <<"6","0","0","k">>,
                           audio_bitrate |-> <<"9","6","k">>] ]

\* ----------------------------------------------------------------- helpers
\* str.replace('k', '') on a string held as a sequence of characters.
ReplaceK(s) == SelectSeq(s, LAMBDA c : c # "k")

DigitVal(c) ==
  CASE c = "0" -> 0 [] c = "1" -> 1 [] c = "2" -> 2 [] c = "3" -> 3
    [] c = "4" -> 4 [] c = "5" -> 5 [] c = "6" -> 6 [] c = "7" -> 7
    [] c = "8" -> 8 [] c = "9" -> 9

\* int() of a string of decimal digits.
RECURSIVE ParseInt(_)
ParseInt(s) ==
  IF s = <<>> THEN 0
  ELSE 10 * ParseInt(SubSeq(s, 1, Len(s) - 1)) + DigitVal(s[Len(s)])

\* Bandwidth with the audio bitrate added to the video bitrate.
Bandwidth_WithAudio(preset) ==
  (ParseInt(ReplaceK(preset.bitrate)) + ParseInt(ReplaceK(preset.audio_bitrate))) * 1000

\* int(preset['bitrate'].replace('k', '')) * 1000
Bandwidth(preset) == ParseInt(ReplaceK(preset.bitrate)) * 1000

\* The variant record _generate_hls_playlist appends after a successful
\* segmenting invocation.
Variant(resolution) ==
  [resolution |-> resolution,
   bandwidth  |-> Bandwidth(quality_presets[resolution]),
   playlist   |-> resolution]

\* Insert v into a sequence already sorted by bandwidth descending, after
\* every element of bandwidth >= v's: with InsertDesc folded from the left
\* this is sorted(..., key=bandwidth, reverse=True), which keeps the input
\* order of equal keys.
RECURSIVE InsertDesc(_, _)
InsertDesc(sorted, v) ==
  IF sorted = <<>> THEN <<v>>
  ELSE IF Head(sorted).bandwidth >= v.bandwidth
       THEN <<Head(sorted)>> \o InsertDesc(Tail(sorted), v)
       ELSE <<v>> \o sorted

\* SortedDesc with the sort left out: variants in segmenting order.
SortedDesc_Unsorted(vs) == vs

RECURSIVE SortedDesc(_)
SortedDesc(vs) ==
  IF vs = <<>> THEN <<>>
  ELSE InsertDesc(SortedDesc(SubSeq(vs, 1, Len(vs) - 1)), vs[Len(vs)])

Range(s) == {s[n] : n \in 1..Len(s)}

\* results['resolutions'][resolution] = output_file on a dict kept as the
\* sequence of its keys in insertion order: assigning an existing key keeps
\* its position.
DictSet(keys, key) == IF key \in Range(keys) THEN keys ELSE Append(keys, key)

\* if resolution not in self.quality_presets, line 73.
Known(resolution) == resolution \in DOMAIN quality_presets

\* SkipTo with `break` in place of `continue`: the loop ends at the
\* unknown label.
SkipTo_Break(pos, n) == n + 1

\* The loop position after an unknown label: `continue`, line 75.
SkipTo(pos, n) == pos + 1

\* if output_file: results['resolutions'][resolution] = output_file,
\* lines 86-87; _transcode_resolution returns None on a non-zero exit.
RecordEncode(keys, resolution, o) ==
  IF o = "ok" THEN DictSet(keys, resolution) ELSE keys

\* AppendVariant with the append moved out of the try: a variant is listed
\* whatever the segmenting invocation's exit status.
AppendVariant_Always(variants, resolution, o) ==
  Append(variants, Variant(resolution))

\* variant_playlists.append(...) inside the try of lines 224-232: reached
\* only when subprocess.run did not raise.
AppendVariant(variants, resolution, o) ==
  IF o = "ok" THEN Append(variants, Variant(resolution)) ELSE variants

\* AppendThumb with the append moved out of the try.
AppendThumb_Always(thumbs, index, o) == Append(thumbs, index)

\* thumbnails.append(output_file) inside the try of lines 280-284.
AppendThumb(thumbs, index, o) ==
  IF o = "ok" THEN Append(thumbs, index) ELSE thumbs

\* Lists of at most n labels drawn from S.
SeqsUpTo(S, n) == UNION {[1..m -> S] : m \in 0..n}

\* ------------------------------------------------------------------- state
VARIABLES
  pc,               \* stage of transcode_video
  blocked,          \* TRUE while subprocess.run waits on a process that never exits
  raised,           \* exception propagated to the caller, or "none"
  returned,         \* TRUE once transcode_video has returned results
  sourceExists,     \* input_path.exists()
  resolutions,      \* the resolutions argument after the None default
  metadata,         \* results['metadata']
  k,                \* position of the encode loop in resolutions
  renditions,       \* keys of results['resolutions'], insertion order
  j,                \* position of the segmenting loop in renditions
  variant_playlists,\* variant_playlists of _generate_hls_playlist
  master,           \* variants written to master.m3u8, in file order
  hls_playlist,     \* results['hls_playlist']: "unset" or the master path
  duration,         \* duration local of _generate_thumbnails, -1 before it is read
  i,                \* position of the thumbnail loop
  thumbnails,       \* thumbnails local, then results['thumbnails']
  preview,          \* results['preview']
  probeCalls,       \* history: prober invocations so far, with stage and outcome
  encodeLog,        \* history: encoder invocations of the encode loop, with outcome
  segLog,           \* history: segmenting invocations, with outcome
  thumbLog,         \* history: thumbnail extraction invocations, with outcome
  previewLog,       \* history: preview extraction invocations, with outcome
  count,            \* count argument of _generate_thumbnails
  entries,          \* local_path.rglob('*'): is_file() of each path, in walk order
  pos,              \* position of upload_video_files in the walk
  uploaded_files,   \* uploaded_files of upload_video_files: positions with a URL
  uploadLog,        \* history: upload_file invocations, with outcome
  pubState          \* "idle", "walking", "returned" or "raised"

pubVars == <<entries, pos, uploaded_files, uploadLog, pubState>>

vars == <<pc, blocked, raised, returned, sourceExists, resolutions, metadata,
          k, renditions, j, variant_playlists, master, hls_playlist, duration,
          i, thumbnails, preview, probeCalls, encodeLog, segLog, thumbLog,
          previewLog, count, pubVars>>

NoMetadata    == [kind |-> "unset", duration |-> 0]
EmptyMetadata == [kind |-> "empty", duration |-> 0]
FullMetadata(d) == [kind |-> "full", duration |-> d]

\* metadata.get('duration', 0)
GetDuration(m) == IF m.kind = "full" THEN m.duration ELSE 0

MasterPath == "hls/master.m3u8"

\* Locals and results of a run before its first step.
InitRun ==
  /\ blocked = FALSE
  /\ raised = "none"
  /\ returned = FALSE
  /\ metadata = NoMetadata
  /\ k = 1
  /\ renditions = <<>>
  /\ j = 1
  /\ variant_playlists = <<>>
  /\ master = <<>>
  /\ hls_playlist = "unset"
  /\ duration = -1
  /\ i = 1
  /\ thumbnails = <<>>
  /\ preview = "None"
  /\ probeCalls = <<>>
  /\ encodeLog = <<>>
  /\ segLog = <<>>
  /\ thumbLog = <<>>
  /\ previewLog = <<>>

InitCommon ==
  /\ pc = "Pending"
  /\ InitRun

\* No upload_video_files call is under way.
PubIdle ==
  /\ entries = <<>>
  /\ pos = 1
  /\ uploaded_files = <<>>
  /\ uploadLog = <<>>
  /\ pubState = "idle"

\* A call transcode_video(input_file, video_id, resolutions): resolutions is
\* an explicit list or None, which stands for every catalog key.
Init ==
  /\ InitCommon
  /\ sourceExists \in BOOLEAN
  /\ resolutions \in SeqsUpTo(RequestLabels, MaxLen) \cup {CatalogOrder}
  /\ count = ThumbCount
  /\ PubIdle

Running == ~blocked /\ raised = "none" /\ ~returned

\* InputFound with the existence check left out.
InputFound_Unchecked(exists) == TRUE

\* input_path.exists(), line 51.
InputFound(exists) == exists

\* input_path.exists() check, lines 49-54.
CheckSource ==
  /\ Running /\ pc = "Pending"
  /\ IF InputFound(sourceExists)
     THEN pc' = "Probing" /\ raised' = raised
     ELSE pc' = "Pending" /\ raised' = "FileNotFoundError"
  /\ UNCHANGED <<count, pubVars>>
  /\ UNCHANGED <<blocked, returned, sourceExists, resolutions, metadata, k,
                 renditions, j, variant_playlists, master, hls_playlist,
                 duration, i, thumbnails, preview, probeCalls, encodeLog,
                 segLog, thumbLog, previewLog>>

\* Outcomes of one ffprobe invocation as _get_video_metadata sees them:
\* exit 0 with well-formed JSON, non-zero exit (CalledProcessError, caught,
\* returns {}), exit 0 with output json.loads or the field accesses reject
\* (not caught), or a process that never exits (no timeout is passed).
ProbeOutcomes ==
  {[kind |-> "ok", duration |-> d] : d \in Durations}
    \cup {[kind |-> "nonzero", duration |-> 0],
          [kind |-> "malformed", duration |-> 0],
          [kind |-> "hang", duration |-> 0]}

\* _get_video_metadata's return value for a terminating, well-formed or
\* non-zero outcome.
ProbeResult(o) ==
  IF o.kind = "ok" THEN FullMetadata(o.duration) ELSE EmptyMetadata

\* metadata = self._get_video_metadata(...), lines 56-69.
Probe ==
  /\ Running /\ pc = "Probing"
  /\ \E o \in ProbeOutcomes :
       /\ probeCalls' = Append(probeCalls, [stage |-> pc, outcome |-> o.kind])
       /\ CASE o.kind = "hang" ->
                 blocked' = TRUE /\ UNCHANGED <<pc, raised, metadata>>
            [] o.kind = "malformed" ->
                 raised' = "JSONDecodeError" /\ UNCHANGED <<pc, blocked, metadata>>
            [] OTHER ->
                 /\ metadata' = ProbeResult(o)
                 /\ pc' = "Encoding"
                 /\ UNCHANGED <<blocked, raised>>
  /\ UNCHANGED <<count, pubVars>>
  /\ UNCHANGED <<returned, sourceExists, resolutions, k, renditions, j,
                 variant_playlists, master, hls_playlist, duration, i,
                 thumbnails, preview, encodeLog, segLog, thumbLog, previewLog>>

\* Outcomes of one ffmpeg invocation under subprocess.run(check=True) with
\* no timeout.
RunOutcomes == {"ok", "nonzero", "hang"}

\* One iteration of the loop over resolutions, lines 72-87, with the call of
\* _transcode_resolution, lines 166-193.
EncodeStep ==
  /\ Running /\ pc = "Encoding" /\ k <= Len(resolutions)
  /\ LET resolution == resolutions[k] IN
       IF ~Known(resolution)
       THEN /\ k' = SkipTo(k, Len(resolutions))
            /\ UNCHANGED <<blocked, renditions, encodeLog>>
       ELSE \E o \in RunOutcomes :
              /\ encodeLog' = Append(encodeLog, [label |-> resolution, outcome |-> o])
              /\ IF o = "hang"
                 THEN blocked' = TRUE /\ UNCHANGED <<k, renditions>>
                 ELSE /\ renditions' = RecordEncode(renditions, resolution, o)
                      /\ k' = k + 1
                      /\ blocked' = blocked
  /\ UNCHANGED <<count, pubVars>>
  /\ UNCHANGED <<pc, raised, returned, sourceExists, resolutions, metadata, j,
                 variant_playlists, master, hls_playlist, duration, i,
                 thumbnails, preview, probeCalls, segLog, thumbLog, previewLog>>

\* The loop over resolutions is exhausted and _generate_hls_playlist is
\* entered, lines 89-204.
StartManifest ==
  /\ Running /\ pc = "Encoding" /\ k > Len(resolutions)
  /\ pc' = "BuildingManifest"
  /\ UNCHANGED <<count, pubVars>>
  /\ UNCHANGED <<blocked, raised, returned, sourceExists, resolutions, metadata,
                 k, renditions, j, variant_playlists, master, hls_playlist,
                 duration, i, thumbnails, preview, probeCalls, encodeLog,
                 segLog, thumbLog, previewLog>>

\* One iteration of the loop over resolutions.items() in
\* _generate_hls_playlist, lines 206-232.
SegmentStep ==
  /\ Running /\ pc = "BuildingManifest" /\ j <= Len(renditions)
  /\ LET resolution == renditions[j] IN
       \E o \in RunOutcomes :
         /\ segLog' = Append(segLog, [label |-> resolution, outcome |-> o])
         /\ IF o = "hang"
            THEN blocked' = TRUE /\ UNCHANGED <<j, variant_playlists>>
            ELSE /\ variant_playlists' = AppendVariant(variant_playlists, resolution, o)
                 /\ j' = j + 1
                 /\ blocked' = blocked
  /\ UNCHANGED <<count, pubVars>>
  /\ UNCHANGED <<pc, raised, returned, sourceExists, resolutions, metadata, k,
                 renditions, master, hls_playlist, duration, i, thumbnails,
                 preview, probeCalls, encodeLog, thumbLog, previewLog>>

\* The master playlist is written from the sorted variants and its path is
\* returned and stored, lines 234-248 and 94; _generate_thumbnails is
\* entered, lines 250-254.
WriteMaster ==
  /\ Running /\ pc = "BuildingManifest" /\ j > Len(renditions)
  /\ master' = SortedDesc(variant_playlists)
  /\ hls_playlist' = MasterPath
  /\ pc' = "Sampling"
  /\ UNCHANGED <<count, pubVars>>
  /\ UNCHANGED <<blocked, raised, returned, sourceExists, resolutions, metadata,
                 k, renditions, j, variant_playlists, duration, i, thumbnails,
                 preview, probeCalls, encodeLog, segLog, thumbLog, previewLog>>

\* EarlyReturn with the duration test left out: the loop always runs.
EarlyReturn_Never(d) == FALSE

\* if duration == 0: return [], lines 260-261.
EarlyReturn(d) == d = 0

\* _generate_thumbnails reads the duration from a probe of its own and
\* returns [] when it is 0, lines 256-264.
ThumbProbe ==
  /\ Running /\ pc = "Sampling" /\ duration = -1
  /\ \E o \in ProbeOutcomes :
       /\ probeCalls' = Append(probeCalls, [stage |-> pc, outcome |-> o.kind])
       /\ CASE o.kind = "hang" ->
                 blocked' = TRUE /\ UNCHANGED <<pc, raised, duration>>
            [] o.kind = "malformed" ->
                 raised' = "JSONDecodeError" /\ UNCHANGED <<pc, blocked, duration>>
            [] OTHER ->
                 /\ duration' = GetDuration(ProbeResult(o))
                 /\ pc' = IF EarlyReturn(duration') THEN "Preview" ELSE "Sampling"
                 /\ UNCHANGED <<blocked, raised>>
  /\ UNCHANGED <<count, pubVars>>
  /\ UNCHANGED <<returned, sourceExists, resolutions, metadata, k, renditions,
                 j, variant_playlists, master, hls_playlist, i, thumbnails,
                 preview, encodeLog, segLog, thumbLog, previewLog>>

\* Timestamp with the interval taken as duration / count.
Timestamp_OverCount(d, cnt, n) == [num |-> d * n, den |-> cnt]

\* interval * i with interval = duration / (count + 1), kept as the exact
\* fraction num / den.
Timestamp(d, cnt, n) == [num |-> d * n, den |-> cnt + 1]

NonzeroCount(log) == Cardinality({n \in 1..Len(log) : log[n].outcome = "nonzero"})

\* One iteration of the loop over range(1, count + 1), lines 266-284.
ThumbStep ==
  /\ Running /\ pc = "Sampling" /\ duration # -1 /\ i <= count
  /\ \E o \in RunOutcomes :
       /\ o = "nonzero" => NonzeroCount(thumbLog) < FailureCap(count)
       /\ thumbLog' = Append(thumbLog,
            [index |-> i, timestamp |-> Timestamp(duration, count, i),
             outcome |-> o])
       /\ IF o = "hang"
          THEN blocked' = TRUE /\ UNCHANGED <<i, thumbnails>>
          ELSE /\ thumbnails' = AppendThumb(thumbnails, i, o)
               /\ i' = i + 1
               /\ blocked' = blocked
  /\ UNCHANGED <<count, pubVars>>
  /\ UNCHANGED <<pc, raised, returned, sourceExists, resolutions, metadata, k,
                 renditions, j, variant_playlists, master, hls_playlist,
                 duration, preview, probeCalls, encodeLog, segLog, previewLog>>

\* The thumbnail loop is exhausted; the list is returned and stored,
\* lines 286-287 and 102.
ThumbsDone ==
  /\ Running /\ pc = "Sampling" /\ duration # -1 /\ i > count
  /\ pc' = "Preview"
  /\ UNCHANGED <<count, pubVars>>
  /\ UNCHANGED <<blocked, raised, returned, sourceExists, resolutions, metadata,
                 k, renditions, j, variant_playlists, master, hls_playlist,
                 duration, i, thumbnails, preview, probeCalls, encodeLog,
                 segLog, thumbLog, previewLog>>

\* _generate_preview, lines 289-315, then the return of results,
\* lines 110-114.
GeneratePreview ==
  /\ Running /\ pc = "Preview"
  /\ \E o \in RunOutcomes :
       /\ previewLog' = Append(previewLog, [outcome |-> o])
       /\ IF o = "hang"
          THEN blocked' = TRUE /\ UNCHANGED <<pc, preview, returned>>
          ELSE /\ preview' = IF o = "ok" THEN "preview.mp4" ELSE "None"
               /\ pc' = "Done"
               /\ returned' = TRUE
               /\ blocked' = blocked
  /\ UNCHANGED <<count, pubVars>>
  /\ UNCHANGED <<raised, sourceExists, resolutions, metadata, k, renditions, j,
                 variant_playlists, master, hls_playlist, duration, i,
                 thumbnails, probeCalls, encodeLog, segLog, thumbLog>>

Next ==
  \/ CheckSource
  \/ Probe
  \/ EncodeStep
  \/ StartManifest
  \/ SegmentStep
  \/ WriteMaster
  \/ ThumbProbe
  \/ ThumbStep
  \/ ThumbsDone
  \/ GeneratePreview

Spec == Init /\ [][Next]_vars

\* transcode_video is sequential code: whenever a step is possible it is
\* taken; a step is not possible while subprocess.run waits.
FairSpec == Init /\ [][Next]_vars /\ WF_vars(Next)

\* A call _generate_thumbnails(input_file, output_dir, count) on its own:
\* pc = "Preview" then stands for the call having returned its list.
InitThumb ==
  /\ pc = "Sampling"
  /\ InitRun
  /\ sourceExists = TRUE
  /\ resolutions = <<>>
  /\ count \in (1..MaxCount) \cup {ThumbCount}
  /\ PubIdle

NextThumb ==
  \/ ThumbProbe
  \/ ThumbStep
  \/ ThumbsDone

SpecThumb == InitThumb /\ [][NextThumb]_vars

\* ------------------------------------------------------------- publisher
runVars == <<pc, blocked, raised, returned, sourceExists, resolutions, metadata,
             k, renditions, j, variant_playlists, master, hls_playlist,
             duration, i, thumbnails, preview, probeCalls, encodeLog, segLog,
             thumbLog, previewLog, count>>

\* Outcomes of one s3_client.upload_file call as upload_video_files sees
\* them: it returns, it raises ClientError (caught, logged), or it raises an
\* exception that is not a ClientError (S3UploadFailedError, a connection or
\* credentials error), which no handler catches.
UploadOutcomes == {"ok", "ClientError", "other"}

\* A call upload_video_files(video_id, local_dir) on a directory tree whose
\* walk yields the given paths, is_file() TRUE for the regular files.
InitPublish ==
  /\ InitCommon
  /\ sourceExists = FALSE
  /\ resolutions = <<>>
  /\ count = ThumbCount
  /\ entries \in SeqsUpTo(BOOLEAN, MaxEntries)
  /\ pos = 1
  /\ uploaded_files = <<>>
  /\ uploadLog = <<>>
  /\ pubState = "walking"

\* uploaded_files[str(relative_path)] = url, line 345, reached only when
\* upload_file returned.
UploadedAfter(files, path, o) == IF o = "ok" THEN Append(files, path) ELSE files

\* One iteration of the loop over local_path.rglob('*'), lines 331-350.
UploadStep ==
  /\ pubState = "walking" /\ pos <= Len(entries)
  /\ IF ~entries[pos]
     THEN /\ pos' = pos + 1
          /\ UNCHANGED <<uploaded_files, uploadLog, pubState>>
     ELSE \E o \in UploadOutcomes :
            /\ uploadLog' = Append(uploadLog, [path |-> pos, outcome |-> o])
            /\ IF o = "other"
               THEN pubState' = "raised" /\ UNCHANGED <<pos, uploaded_files>>
               ELSE /\ uploaded_files' = UploadedAfter(uploaded_files, pos, o)
                    /\ pos' = pos + 1
                    /\ pubState' = pubState
  /\ UNCHANGED entries
  /\ UNCHANGED runVars

\* return uploaded_files, line 352.
UploadReturn ==
  /\ pubState = "walking" /\ pos > Len(entries)
  /\ pubState' = "returned"
  /\ UNCHANGED <<entries, pos, uploaded_files, uploadLog>>
  /\ UNCHANGED runVars

NextPublish ==
  \/ UploadStep
  \/ UploadReturn

SpecPublish == InitPublish /\ [][NextPublish]_vars

\* ------------------------------------------------------------- properties
Labels(recs) == {recs[n].resolution : n \in 1..Len(recs)}

LogLabels(log, o) == {log[n].label : n \in {m \in 1..Len(log) : log[m].outcome = o}}

ManifestWritten == hls_playlist # "unset"

\* C1: every variant listed in the master manifest is a catalog key, has an
\* entry in the run's renditions and was segmented successfully; a rendition
\* whose segmenting fails is left out, and every rendition is still
\* segmented and, when its segmenting succeeds, listed.
C1_ManifestOnlySucceeded ==
  ManifestWritten =>
    /\ \A r \in Labels(master) :
         /\ r \in DOMAIN quality_presets
         /\ r \in Range(renditions)
         /\ r \in LogLabels(segLog, "ok")
    /\ \A r \in Range(renditions) :
         /\ r \in LogLabels(segLog, "ok") \cup LogLabels(segLog, "nonzero")
         /\ r \in LogLabels(segLog, "nonzero") => r \notin Labels(master)
         /\ r \in LogLabels(segLog, "ok") => r \in Labels(master)

C1_Witness ==
  /\ pc = "Done"
  /\ Len(renditions) = 3
  /\ segLog[2].outcome = "nonzero"
  /\ Len(master) = 2

\* C2: the variants written to the master manifest are in non-increasing
\* order of bandwidth.
C2_BandwidthDescending ==
  \A a, b \in 1..Len(master) : a < b => master[a].bandwidth >= master[b].bandwidth

C2_Witness ==
  /\ ManifestWritten
  /\ Len(master) = 3
  /\ variant_playlists # master

\* C3: a label with a failed encode is in neither the renditions nor the
\* manifest, and every other requested catalog label is still encoded.
C3_FailedEncodeAbsent ==
  pc \in {"BuildingManifest", "Sampling", "Preview", "Done"} =>
    /\ \A r \in LogLabels(encodeLog, "nonzero") :
         r \notin Range(renditions) /\ r \notin Labels(master)
    /\ \A r \in Range(resolutions) :
         Known(r) => r \in LogLabels(encodeLog, "ok") \cup LogLabels(encodeLog, "nonzero")

FirstProbeFailed ==
  /\ probeCalls # <<>>
  /\ probeCalls[1].outcome \in {"nonzero", "malformed"}

\* C4: after a failed metadata probe nothing else is started and no result
\* is returned.
C4_ProbeFailureAborts ==
  FirstProbeFailed =>
    /\ encodeLog = <<>> /\ segLog = <<>> /\ thumbLog = <<>> /\ previewLog = <<>>
    /\ Len(probeCalls) = 1
    /\ ~ManifestWritten
    /\ ~returned

\* C5: with zero variants the manifest field of the run is empty.
C5_NoVariantsNoManifest ==
  (returned /\ variant_playlists = <<>>) => hls_playlist \in {"unset", "None"}

FirstProbeOk == probeCalls # <<>> /\ probeCalls[1].outcome = "ok"

\* C6: with an existing source and a successful probe the run neither
\* raises nor stays waiting, and what it returns is populated, each failure
\* showing as the absence of its artifact.
C6_AlwaysReturns ==
  (sourceExists /\ FirstProbeOk) =>
    /\ raised = "none"
    /\ ~blocked
    /\ returned =>
         /\ metadata.kind = "full"
         /\ ManifestWritten
         /\ preview = (IF previewLog[1].outcome = "ok" THEN "preview.mp4" ELSE "None")

StageRank(s) ==
  CASE s = "Pending" -> 0 [] s = "Probing" -> 1 [] s = "Encoding" -> 2
    [] s = "BuildingManifest" -> 3 [] s = "Sampling" -> 4 [] s = "Preview" -> 4
    [] s = "Done" -> 5

\* C7: the stage never goes back, manifest building starts only after the
\* encode loop has handled every requested label, and the prober and the
\* rendition encoder are invoked only in their own stages.
C7_StagesInOrder ==
  [][ /\ StageRank(pc') >= StageRank(pc)
      /\ (pc # "BuildingManifest" /\ pc' = "BuildingManifest") => k > Len(resolutions)
      /\ Len(encodeLog') > Len(encodeLog) => pc = "Encoding"
      /\ Len(probeCalls') > Len(probeCalls) => pc = "Probing" ]_vars

\* C8: an unknown label gets no encoder invocation and no entry, and the
\* catalog labels of the request are all encoded, in request order.
C8_UnknownSkipped ==
  /\ \A n \in 1..Len(encodeLog) : Known(encodeLog[n].label)
  /\ \A r \in Range(renditions) \cup Labels(master) : Known(r)
  /\ pc \in {"BuildingManifest", "Sampling", "Preview", "Done"} =>
       [n \in 1..Len(encodeLog) |-> encodeLog[n].label] = SelectSeq(resolutions, Known)

C8_Witness ==
  /\ pc = "Done"
  /\ Len(resolutions) = 3
  /\ ~Known(resolutions[2])
  /\ renditions = <<resolutions[1], resolutions[3]>>
  /\ Labels(master) = {resolutions[1], resolutions[3]}

\* C9: the prober is invoked once per run and thumbnail sampling uses the
\* duration stored in the run's metadata.
C9_ProbedOnce ==
  /\ Len(probeCalls) <= 1
  /\ duration # -1 => duration = GetDuration(metadata)

WaitingOnEncoder ==
  /\ blocked
  /\ \/ pc \in {"Encoding", "BuildingManifest", "Preview"}
     \/ pc = "Sampling" /\ duration # -1

\* C10: an encode, segmenting, thumbnail or preview invocation that never
\* exits is timed out and skipped, and the run reaches Done.
C10_HangTimesOut == WaitingOnEncoder ~> (pc = "Done")

\* C12: with a missing source file the run raises at the existence check:
\* the prober and the encoder are never invoked and nothing is returned.
C12_MissingSourceAborts ==
  ~sourceExists =>
    /\ pc = "Pending"
    /\ raised \in {"none", "FileNotFoundError"}
    /\ probeCalls = <<>> /\ encodeLog = <<>> /\ segLog = <<>>
    /\ thumbLog = <<>> /\ previewLog = <<>>
    /\ ~ManifestWritten
    /\ ~returned

C12_Witness == ~sourceExists /\ raised = "FileNotFoundError"

\* C13: thumbnail sampling that reads a duration of zero, or none because
\* the probe gave none, returns the empty list, raises nothing and starts no
\* extraction.
C13_ZeroDurationEmpty ==
  duration = 0 =>
    /\ pc = "Preview"
    /\ thumbnails = <<>>
    /\ thumbLog = <<>>
    /\ raised = "none"

C13_Witness ==
  /\ duration = 0
  /\ pc = "Preview"
  /\ probeCalls[1].outcome = "nonzero"

OkIndexes == SelectSeq([n \in 1..Len(thumbLog) |-> n],
                       LAMBDA n : thumbLog[n].outcome = "ok")

SamplingReturned == pc = "Preview" /\ duration > 0

\* C14: when sampling with a positive duration returns, one extraction was
\* attempted at each of the count indexes 1..count, whatever the outcomes,
\* and the list returned is the successful indexes in increasing order.
C14_FailedThumbSkipped ==
  SamplingReturned =>
    /\ Len(thumbLog) = count
    /\ \A n \in 1..count : thumbLog[n].index = n
    /\ thumbnails = OkIndexes

C14_Witness ==
  /\ SamplingReturned
  /\ count = 4
  /\ thumbLog[2].outcome = "nonzero"
  /\ thumbLog[3].outcome = "nonzero"
  /\ thumbnails = <<1, 4>>

Ts(n) == thumbLog[n].timestamp

\* C15: when sampling with a positive duration d returns, the count
\* timestamps used are d / (count + 1) * n for n = 1..count: strictly
\* increasing, evenly spaced and strictly between 0 and d; for d = 30 and
\* count = 10 they are 30/11, 60/11, ..., 300/11.
C15_TimestampsEvenlySpaced ==
  SamplingReturned =>
    /\ Len(thumbLog) = count
    /\ \A n \in 1..count :
         /\ Ts(n).den > 0
         /\ Ts(n).num * (count + 1) = duration * n * Ts(n).den
         /\ 0 < Ts(n).num
         /\ Ts(n).num < duration * Ts(n).den
    /\ \A n \in 1..(count - 1) :
         /\ Ts(n).num * Ts(n + 1).den < Ts(n + 1).num * Ts(n).den
         /\ (Ts(n + 1).num * Ts(n).den - Ts(n).num * Ts(n + 1).den) * Ts(1).den
              = Ts(1).num * Ts(n).den * Ts(n + 1).den
    /\ (duration = 30 /\ count = 10) =>
         \A n \in 1..10 : Ts(n).num * 11 = 30 * n * Ts(n).den

C15_Witness ==
  /\ SamplingReturned
  /\ duration = 30
  /\ count = 10
  /\ Len(thumbLog) = 10

\* The video bitrate of each preset in kbps, as written in the catalog.
VideoKbps ==
  [r \in DOMAIN quality_presets |->
     CASE r = "2160p" -> 15000 [] r = "1080p" -> 5000 [] r = "720p" -> 2500
       [] r = "480p" -> 1000 [] r = "360p" -> 600]

AllThreeSegmented ==
  /\ ManifestWritten
  /\ Labels(variant_playlists) = {"1080p", "720p", "480p"}

\* C16: every variant's bandwidth is its preset's video kbps times 1000, and
\* with 1080p, 720p and 480p all segmented the master manifest lists
\* exactly 1080p, 720p, 480p with 5000000, 2500000, 1000000, whatever the
\* request order.
C16_BandwidthFromVideoBitrate ==
  /\ \A n \in 1..Len(master) :
       master[n].bandwidth = VideoKbps[master[n].resolution] * 1000
  /\ AllThreeSegmented =>
       /\ [n \in 1..Len(master) |-> master[n].resolution] = <<"1080p", "720p", "480p">>
       /\ [n \in 1..Len(master) |-> master[n].bandwidth] = <<5000000, 2500000, 1000000>>

C16_Witness ==
  /\ AllThreeSegmented
  /\ resolutions = <<"480p", "1080p", "720p">>
  /\ Len(master) = 3

RegularFiles == {n \in 1..Len(entries) : entries[n]}

Attempts(n) == {m \in 1..Len(uploadLog) : uploadLog[m].path = n}

\* C18: when upload_video_files ends it has returned, having attempted the
\* upload of every regular file exactly once, and the mapping holds exactly
\* the files whose upload succeeded.
C18_EveryFileAttempted ==
  pubState \in {"returned", "raised"} =>
    /\ pubState = "returned"
    /\ \A n \in RegularFiles : Cardinality(Attempts(n)) = 1
    /\ Range(uploaded_files) =
         {uploadLog[m].path : m \in {x \in 1..Len(uploadLog) : uploadLog[x].outcome = "ok"}}

LastAttemptOk(r) ==
  /\ \E n \in 1..Len(encodeLog) : encodeLog[n].label = r
  /\ LET last == CHOOSE n \in 1..Len(encodeLog) :
                   /\ encodeLog[n].label = r
                   /\ \A m \in (n + 1)..Len(encodeLog) : encodeLog[m].label # r
     IN encodeLog[last].outcome = "ok"

\* C19: once the encode loop is over, a label is in the renditions exactly
\* when it is a requested catalog label whose last encode attempt succeeded.
C19_LastAttemptDecides ==
  pc \in {"BuildingManifest", "Sampling", "Preview", "Done"} =>
    \A r \in RequestLabels \cup DOMAIN quality_presets :
      r \in Range(renditions) <=>
        (Known(r) /\ r \in Range(resolutions) /\ LastAttemptOk(r))
====
